---- MODULE Spec2Model ----
(***************************************************************************)
(* Model of lib/Importer/ONNXIFILoader.cpp: the ONNXIFI model loader.      *)
(*                                                                         *)
(*   setTensorType   type declaration -> shape-only Tensor                 *)
(*   loadInputs      one placeholder Tensor and one Variable per input     *)
(*   loadWeight      weight descriptor -> Tensor holding a copy of the data*)
(*   loadWeights     the loop registering each weight in tensors_          *)
(*   parse           the pipeline loadProto, setVersion, loadInputs,       *)
(*                   loadWeights, loadNetwork, setOutputNodes              *)
(*   parseOperator   the single-operator inspection                        *)
(*                                                                         *)
(* Objects created with new live in `heap`; an object's id is its index.   *)
(***************************************************************************)
EXTENDS Integers, Sequences, FiniteSets, TLC

VARIABLES
  NDEBUG,                \* the build: TRUE when assertions are compiled out
  pc,                    \* position of the running parse call
  nInputs,               \* net.input_size()
  weightsCount,          \* parse's weightsCount argument
  ii,                    \* loadInputs: inputs registered so far
  wi,                    \* loadWeights: the loop variable i
  heap,                  \* objects allocated by the call, in allocation order
  tensors_,              \* loader->tensors_: name -> Tensor id (0: absent)
  onnxNameToInputVars_,  \* loader->onnxNameToInputVars_: name -> Variable id
  calls,                 \* the calls parse has made, in order, with outcomes
  lastDecl,              \* the last setTensorType call
  lastDesc,              \* the last loadWeight call
  result,                \* what parse returned: "none", "loader", "nullptr"
  opModel,               \* parseOperator: the model bytes, decoded
  opResult               \* parseOperator: the returned pointer

vars == <<NDEBUG, pc, nInputs, weightsCount, ii, wi, heap, tensors_,
          onnxNameToInputVars_, calls, lastDecl, lastDesc, result,
          opModel, opResult>>

parseVars == <<NDEBUG, pc, nInputs, weightsCount, ii, wi, heap, tensors_,
               onnxNameToInputVars_, calls, lastDecl, lastDesc, result>>

-----------------------------------------------------------------------------
(* Bounds of the model.                                                    *)

MaxInputs == 1       \* declared graph inputs of one model
MaxWeights == 2      \* weight descriptors of one parse call
MaxRank == 2         \* entries of a shape
MaxDim == 2          \* largest dimension size
Bits == 3            \* width of int64_t, uint64_t and size_t, scaled down
MaxNodes == 2        \* operator nodes of an inspected model

Names == {"A", "B"}

\* ONNX_NAMESPACE::TensorProto element types of a type declaration; INT32
\* stands for every type other than FLOAT and INT64.
DeclElems == {"FLOAT", "INT64", "INT32"}

\* ONNXIFI data types of a weight descriptor; INT8 stands for every type
\* other than the three named ones.
DataTypes == {"FLOAT32", "UINT64", "INT64", "INT8"}

\* ONNXIFI memory types; CUDA_BUFFER stands for every type other than CPU.
MemoryTypes == {"CPU", "CUDA_BUFFER"}

\* op_type strings of a node; Add stands for a name outside the table.
OpTypes == {"conv", "Conv", "Relu", "Softmax", "Add"}

Pow2(n) == 2 ^ n

SeqsUpTo(S, n) == UNION {[1..k -> S] : k \in 0..n}

RECURSIVE Product(_)
Product(s) == IF s = <<>> THEN 1 ELSE Head(s) * Product(Tail(s))

-----------------------------------------------------------------------------
(* Integer conversions of the copy and of the shape.                      *)

\* A uint64_t or int64_t value converted to size_t.
ToSizeT(x) == x % Pow2(Bits)

\* The bytes of a 64-bit word read through an int64_t pointer.
AsInt64(u) == IF u >= Pow2(Bits - 1) THEN u - Pow2(Bits) ELSE u

-----------------------------------------------------------------------------
(* Tensors.                                                                *)

\* Tensor(): no type set, no data.
EmptyTensor == [kind |-> "unset", dims |-> <<>>, data |-> <<>>]

\* Tensor::reset(kind, dims): a buffer of product(dims) elements.
reset(kind, dims) ==
  [kind |-> kind, dims |-> dims, data |-> [i \in 1..Product(dims) |-> 0]]

\* TH.size() of a tensor's handle.
size(T) == Len(T.data)

-----------------------------------------------------------------------------
(* setTensorType (lines 27-42).                                            *)

\* assert(false && "..."): aborts in a build with assertions, and is an
\* empty statement when NDEBUG is defined.
assertFalse(ndebug) == IF ndebug THEN "skip" ELSE "halt"

\* Pushes the declared dimensions at the front: the shape comes out reversed.
declDimsReversed(in) ==
  [k \in 1..Len(in.dims) |-> ToSizeT(in.dims[Len(in.dims) + 1 - k])]

\* The dim vector of lines 28-31: the declared dim_value()s, pushed in order.
declDims(in) == [k \in 1..Len(in.dims) |-> ToSizeT(in.dims[k])]

\* ret is "ok" when the function returns, "halt" when the process aborts in
\* it; T is the tensor *T afterwards.
setTensorType(in, T, ndebug) ==
  IF in.elem = "FLOAT"
    THEN [ret |-> "ok", T |-> reset("FloatTy", declDims(in))]
  ELSE IF in.elem = "INT64"
    THEN [ret |-> "ok", T |-> reset("IndexTy", declDims(in))]
  ELSE IF assertFalse(ndebug) = "halt"
    THEN [ret |-> "halt", T |-> T]
  ELSE [ret |-> "ok", T |-> T]

-----------------------------------------------------------------------------
(* loadWeight (lines 55-88).                                               *)

\* llvm_unreachable(...): aborts in a build with assertions; with NDEBUG it
\* is __builtin_unreachable(), undefined behaviour, of which the build can
\* make the preceding branch (the else-if test dropped) or a fall through
\* to the return.
llvm_unreachable(ndebug) ==
  IF ndebug THEN {"asIndex", "fallthrough"} ELSE {"halt"}

\* The dims vector of lines 61-64: the first in.dimensions entries of shape.
descDims(in) == [k \in 1..in.dimensions |-> ToSizeT(in.shape[k])]

\* Lines 69-73: float elements copied one by one.
floatCopy(T, buffer) ==
  [T EXCEPT !.data = [i \in 1..size(T) |-> buffer[i]]]

\* Stores the int64_t read without the conversion to size_t.
indexCopySigned(T, buffer) ==
  [T EXCEPT !.data = [i \in 1..size(T) |-> AsInt64(buffer[i])]]

\* Lines 78-82: the buffer read as int64_t, each element stored as size_t.
indexCopy(T, buffer) ==
  [T EXCEPT !.data = [i \in 1..size(T) |-> ToSizeT(AsInt64(buffer[i]))]]

\* ret is "true" or "false" when the function returns that, "halt" when the
\* process aborts in it; T is the tensor *T afterwards, reads the number of
\* elements the copy loop read from in.buffer. ub is what the build made of
\* llvm_unreachable.
loadWeight(in, T, ub) ==
  IF in.memoryType # "CPU"
    THEN [ret |-> "false", T |-> T, reads |-> 0]
  ELSE IF in.dataType = "FLOAT32"
    THEN LET R == reset("FloatTy", descDims(in))
         IN  [ret |-> "true", T |-> floatCopy(R, in.buffer), reads |-> size(R)]
  ELSE IF in.dataType = "UINT64" \/ ub = "asIndex"
    THEN LET R == reset("IndexTy", descDims(in))
         IN  [ret |-> "true", T |-> indexCopy(R, in.buffer), reads |-> size(R)]
  ELSE IF ub = "halt"
    THEN [ret |-> "halt", T |-> T, reads |-> 0]
  ELSE [ret |-> "true", T |-> T, reads |-> 0]

-----------------------------------------------------------------------------
(* The inputs of a call.                                                   *)

Shapes == SeqsUpTo(0..MaxDim, MaxRank)

\* A graph input: its name and the tensor_type of its TypeProto.
DeclsOver(names, shapes) ==
  {[name |-> n, elem |-> e, dims |-> s] :
     n \in names, e \in DeclElems, s \in shapes}

\* The caller's buffer for a descriptor of n elements, and one element more
\* that belongs to the caller.
Buffer(seed, n) == [i \in 1..(n + 1) |-> (seed + i - 1) % Pow2(Bits)]

\* An onnxTensorDescriptorV1: shape is an array of which the first
\* `dimensions` entries are the tensor's shape.
DescriptorsOver(names, ranks, shapes, seeds) ==
  {[name |-> n, memoryType |-> m, dataType |-> t, dimensions |-> d,
    shape |-> s, buffer |-> Buffer(b, Product(SubSeq(s, 1, d)))] :
     n \in names, m \in MemoryTypes, t \in DataTypes, d \in ranks,
     s \in shapes, b \in seeds}

AllDecls == DeclsOver({"A"}, Shapes)

AllDescriptors ==
  DescriptorsOver({"A"}, 0..MaxRank, [1..MaxRank -> 0..MaxDim],
                  0..(Pow2(Bits) - 1))

\* The inputs of the whole pipeline: scalars and vectors for the declared
\* inputs, one vector for the weights.
SmallDecls == DeclsOver(Names, {<<>>, <<MaxDim>>})

SmallDescriptors ==
  DescriptorsOver(Names, {1}, {[k \in 1..MaxRank |-> MaxDim]},
                  {Pow2(Bits) - 2})

NoDecl == [name |-> "", elem |-> "", dims |-> <<>>]

NoDesc == [name |-> "", memoryType |-> "", dataType |-> "", dimensions |-> 0,
           shape |-> <<>>, buffer |-> <<>>]

-----------------------------------------------------------------------------
(* The heap and the loader's destructor.                                   *)

\* new Tensor() at `site` ("loadInputs", "loadWeights"), for its idx-th item,
\* which is named `name`.
newTensor(site, idx, name, T) ==
  [cls |-> "Tensor", site |-> site, idx |-> idx, name |-> name, T |-> T,
   live |-> TRUE]

\* createAndRememberVariable(name, T, VisibilityKind::Public): a Variable of
\* the module holding a copy of T.
createAndRememberVariable(name, idx, T) ==
  [cls |-> "Variable", site |-> "loadInputs", idx |-> idx, name |-> name,
   T |-> T, live |-> TRUE]

Registered(t) == {t[n] : n \in Names} \ {0}

\* ~ModelLoader, run when parse's unique_ptr goes out of scope: deletes the
\* tensors registered in tensors_.
destroyLoader(h, t) ==
  [k \in DOMAIN h |->
     IF k \in Registered(t) THEN [h[k] EXCEPT !.live = FALSE] ELSE h[k]]

Call(op, idx, ok) == [op |-> op, idx |-> idx, ok |-> ok]

-----------------------------------------------------------------------------
(* ModelLoader::parse (lines 105-132), one action per call it makes.       *)

\* Goes on to loadInputs whatever loadProto reports.
LoadProtoUnchecked ==
  /\ pc = "loadProto"
  /\ \E ok \in BOOLEAN :
       /\ calls' = IF ok
                     THEN calls \o <<Call("loadProto", 0, TRUE),
                                     Call("setVersion", 0, TRUE)>>
                     ELSE Append(calls, Call("loadProto", 0, FALSE))
       /\ pc' = "loadInputs"
  /\ UNCHANGED <<NDEBUG, nInputs, weightsCount, ii, wi, heap, tensors_,
                 onnxNameToInputVars_, lastDecl, lastDesc, result,
                 opModel, opResult>>

\* Lines 108-114: the loader is created, loadProto decodes the bytes, and
\* setVersion follows its success.
LoadProto ==
  /\ pc = "loadProto"
  /\ \E ok \in BOOLEAN :
       /\ calls' = IF ok
                     THEN calls \o <<Call("loadProto", 0, TRUE),
                                     Call("setVersion", 0, TRUE)>>
                     ELSE Append(calls, Call("loadProto", 0, FALSE))
       /\ pc' = IF ok THEN "loadInputs" ELSE "fail"
  /\ UNCHANGED <<NDEBUG, nInputs, weightsCount, ii, wi, heap, tensors_,
                 onnxNameToInputVars_, lastDecl, lastDesc, result,
                 opModel, opResult>>

\* Lines 45-51: one iteration of loadInputs' loop, on the next declared
\* input, drawn from D. Declared input names are distinct.
loadInputs(D) ==
  /\ pc = "loadInputs"
  /\ ii < nInputs
  /\ \E in \in D :
       /\ onnxNameToInputVars_[in.name] = 0
       /\ LET r   == setTensorType(in, EmptyTensor, NDEBUG)
              tid == Len(heap) + 1
              var == Len(heap) + 2
          IN  /\ lastDecl' = [called |-> TRUE, in |-> in, ret |-> r.ret,
                              obj |-> tid]
              /\ calls' = Append(calls, Call("setTensorType", ii, r.ret = "ok"))
              /\ IF r.ret = "halt"
                   THEN /\ heap' = Append(heap, newTensor("loadInputs", ii, in.name, r.T))
                        /\ pc' = "halted"
                        /\ UNCHANGED <<ii, onnxNameToInputVars_>>
                   ELSE /\ heap' = heap \o
                                     <<newTensor("loadInputs", ii, in.name, r.T),
                                       createAndRememberVariable(in.name, ii, r.T)>>
                        /\ onnxNameToInputVars_' =
                             [onnxNameToInputVars_ EXCEPT ![in.name] = var]
                        /\ ii' = ii + 1
                        /\ pc' = pc
  /\ UNCHANGED <<NDEBUG, nInputs, weightsCount, wi, tensors_, lastDesc,
                 result, opModel, opResult>>

\* Line 117 returns: every declared input is registered.
LoadInputsDone ==
  /\ pc = "loadInputs"
  /\ ii = nInputs
  /\ pc' = "loadWeights"
  /\ UNCHANGED <<NDEBUG, nInputs, weightsCount, ii, wi, heap, tensors_,
                 onnxNameToInputVars_, calls, lastDecl, lastDesc, result,
                 opModel, opResult>>

\* Registers the tensor before loadWeight has accepted the descriptor.
loadWeightsRegisterFirst(D) ==
  /\ pc = "loadWeights"
  /\ wi < weightsCount
  /\ \E in \in D, ub \in llvm_unreachable(NDEBUG) :
       LET r   == loadWeight(in, EmptyTensor, ub)
           tid == Len(heap) + 1
       IN  /\ heap' = Append(heap, newTensor("loadWeights", wi, in.name, r.T))
           /\ lastDesc' = [called |-> TRUE, in |-> in, ret |-> r.ret,
                           obj |-> tid, reads |-> r.reads]
           /\ tensors_' = [tensors_ EXCEPT ![in.name] = tid]
           /\ IF r.ret = "true"
                THEN /\ calls' = Append(calls, Call("loadWeight", wi, TRUE))
                     /\ wi' = wi + 1
                     /\ pc' = pc
                ELSE /\ calls' = IF r.ret = "halt"
                                   THEN Append(calls, Call("loadWeight", wi, FALSE))
                                   ELSE calls \o <<Call("loadWeight", wi, FALSE),
                                                   Call("loadWeights", 0, FALSE)>>
                     /\ pc' = IF r.ret = "halt" THEN "halted" ELSE "fail"
                     /\ wi' = wi
  /\ UNCHANGED <<NDEBUG, nInputs, weightsCount, ii, onnxNameToInputVars_,
                 lastDecl, result, opModel, opResult>>

\* Lines 92-100: one iteration of loadWeights' loop, on weightDescriptors[i],
\* drawn from D; on loadWeight's false, line 96 returns false to parse.
loadWeights(D) ==
  /\ pc = "loadWeights"
  /\ wi < weightsCount
  /\ \E in \in D, ub \in llvm_unreachable(NDEBUG) :
       LET r   == loadWeight(in, EmptyTensor, ub)
           tid == Len(heap) + 1
       IN  /\ heap' = Append(heap, newTensor("loadWeights", wi, in.name, r.T))
           /\ lastDesc' = [called |-> TRUE, in |-> in, ret |-> r.ret,
                           obj |-> tid, reads |-> r.reads]
           /\ IF r.ret = "true"
                THEN /\ tensors_' = [tensors_ EXCEPT ![in.name] = tid]
                     /\ calls' = Append(calls, Call("loadWeight", wi, TRUE))
                     /\ wi' = wi + 1
                     /\ pc' = pc
                ELSE /\ calls' = IF r.ret = "halt"
                                   THEN Append(calls, Call("loadWeight", wi, FALSE))
                                   ELSE calls \o <<Call("loadWeight", wi, FALSE),
                                                   Call("loadWeights", 0, FALSE)>>
                     /\ pc' = IF r.ret = "halt" THEN "halted" ELSE "fail"
                     /\ UNCHANGED <<wi, tensors_>>
  /\ UNCHANGED <<NDEBUG, nInputs, weightsCount, ii, onnxNameToInputVars_,
                 lastDecl, result, opModel, opResult>>

\* Line 102: the loop is over, loadWeights returns true.
LoadWeightsDone ==
  /\ pc = "loadWeights"
  /\ wi = weightsCount
  /\ calls' = Append(calls, Call("loadWeights", 0, TRUE))
  /\ pc' = "loadNetwork"
  /\ UNCHANGED <<NDEBUG, nInputs, weightsCount, ii, wi, heap, tensors_,
                 onnxNameToInputVars_, lastDecl, lastDesc, result,
                 opModel, opResult>>

\* Lines 123-125: the graph builder reports success or failure.
LoadNetwork ==
  /\ pc = "loadNetwork"
  /\ \E ok \in BOOLEAN :
       /\ calls' = Append(calls, Call("loadNetwork", 0, ok))
       /\ pc' = IF ok THEN "setOutputNodes" ELSE "fail"
  /\ UNCHANGED <<NDEBUG, nInputs, weightsCount, ii, wi, heap, tensors_,
                 onnxNameToInputVars_, lastDecl, lastDesc, result,
                 opModel, opResult>>

\* Returns the loader whatever setOutputNodes reports.
SetOutputNodesUnchecked ==
  /\ pc = "setOutputNodes"
  /\ \E ok \in BOOLEAN :
       /\ calls' = Append(calls, Call("setOutputNodes", 0, ok))
       /\ pc' = "success"
       /\ result' = "loader"
  /\ UNCHANGED <<NDEBUG, nInputs, weightsCount, ii, wi, heap, tensors_,
                 onnxNameToInputVars_, lastDecl, lastDesc, opModel, opResult>>

\* Lines 127-131: output resolution reports success or failure; on success
\* parse returns the loader.
SetOutputNodes ==
  /\ pc = "setOutputNodes"
  /\ \E ok \in BOOLEAN :
       /\ calls' = Append(calls, Call("setOutputNodes", 0, ok))
       /\ pc' = IF ok THEN "success" ELSE "fail"
       /\ result' = IF ok THEN "loader" ELSE result
  /\ UNCHANGED <<NDEBUG, nInputs, weightsCount, ii, wi, heap, tensors_,
                 onnxNameToInputVars_, lastDecl, lastDesc, opModel, opResult>>

\* Lines 112, 120, 124, 128: return nullptr; the loader is destroyed.
ReturnNull ==
  /\ pc = "fail"
  /\ heap' = destroyLoader(heap, tensors_)
  /\ result' = "nullptr"
  /\ pc' = "returned"
  /\ UNCHANGED <<NDEBUG, nInputs, weightsCount, ii, wi, tensors_,
                 onnxNameToInputVars_, calls, lastDecl, lastDesc,
                 opModel, opResult>>

-----------------------------------------------------------------------------
(* ModelLoader::parseOperator (lines 134-167).                             *)

\* The serialized models: whether the bytes deserialize, and the nodes the
\* decoder left in modelDef.graph() (those of the model when it does, those
\* decoded before the error when it does not).
OpModels == [valid : BOOLEAN, nodes : SeqsUpTo(OpTypes, MaxNodes)]

\* ONNXModelLoader::loadProto(modelDef, onnxModel, onnxModelSize): true when
\* the bytes deserialize.
loadProto(model) == model.valid

Null == [ptr |-> "nullptr", kind |-> "", elem |-> ""]

Pair(kind, elem) == [ptr |-> "pair", kind |-> kind, elem |-> elem]

\* Returns nullptr when loadProto fails, not when it succeeds.
parseOperatorChecked(model) ==
  IF ~loadProto(model) THEN Null
  ELSE IF Len(model.nodes) # 1 THEN Null
  ELSE IF model.nodes[1] = "conv" THEN Pair("ConvolutionNodeKind", "FloatTy")
  ELSE IF model.nodes[1] = "Relu" THEN Pair("ReluNodeKind", "FloatTy")
  ELSE IF model.nodes[1] = "Softmax" THEN Pair("SoftMaxNodeKind", "FloatTy")
  ELSE Null

\* The unique_ptr the function returns.
parseOperator(model) ==
  IF loadProto(model) THEN Null
  ELSE IF Len(model.nodes) # 1 THEN Null
  ELSE LET operation == model.nodes[1]
       IN  IF operation = "conv"
             THEN Pair("ConvolutionNodeKind", "FloatTy")
           ELSE IF operation = "Relu"
             THEN Pair("ReluNodeKind", "FloatTy")
           ELSE IF operation = "Softmax"
             THEN Pair("SoftMaxNodeKind", "FloatTy")
           ELSE Null

ParseOperator ==
  /\ opResult.ptr = "pending"
  /\ opResult' = parseOperator(opModel)
  /\ UNCHANGED <<opModel, parseVars>>

-----------------------------------------------------------------------------
(* Specifications.                                                         *)

NoOpModel == [valid |-> FALSE, nodes |-> <<>>]

Pending == [ptr |-> "pending", kind |-> "", elem |-> ""]

\* A loader just constructed (line 108), in either build.
InitLoader ==
  /\ NDEBUG \in BOOLEAN
  /\ ii = 0
  /\ wi = 0
  /\ heap = <<>>
  /\ tensors_ = [n \in Names |-> 0]
  /\ onnxNameToInputVars_ = [n \in Names |-> 0]
  /\ lastDecl = [called |-> FALSE, in |-> NoDecl, ret |-> "", obj |-> 0]
  /\ lastDesc = [called |-> FALSE, in |-> NoDesc, ret |-> "", obj |-> 0,
                 reads |-> 0]
  /\ result = "none"

Decoded == <<Call("loadProto", 0, TRUE), Call("setVersion", 0, TRUE)>>

\* A parse call on any model and any descriptor array.
Init ==
  /\ InitLoader
  /\ pc = "loadProto"
  /\ calls = <<>>
  /\ nInputs \in 0..MaxInputs
  /\ weightsCount \in 0..MaxWeights
  /\ opModel = NoOpModel
  /\ opResult = Pending

Next ==
  \/ LoadProto
  \/ loadInputs(SmallDecls)
  \/ LoadInputsDone
  \/ loadWeights(SmallDescriptors)
  \/ LoadWeightsDone
  \/ LoadNetwork
  \/ SetOutputNodes
  \/ ReturnNull

Spec == Init /\ [][Next]_vars

\* loadInputs on a decoded model with one input of any declared type.
InitType ==
  /\ InitLoader
  /\ pc = "loadInputs"
  /\ calls = Decoded
  /\ nInputs = 1
  /\ weightsCount = 0
  /\ opModel = NoOpModel
  /\ opResult = Pending

NextType == loadInputs(AllDecls) \/ LoadInputsDone

SpecType == InitType /\ [][NextType]_vars

\* loadWeights on a decoded model without inputs and one descriptor of any
\* memory type, data type, shape and content.
InitWeight ==
  /\ InitLoader
  /\ pc = "loadWeights"
  /\ calls = Decoded
  /\ nInputs = 0
  /\ weightsCount = 1
  /\ opModel = NoOpModel
  /\ opResult = Pending

NextWeight == loadWeights(AllDescriptors) \/ LoadWeightsDone

SpecWeight == InitWeight /\ [][NextWeight]_vars

\* parseOperator on any serialized model.
InitOp ==
  /\ InitLoader
  /\ pc = "loadProto"
  /\ calls = <<>>
  /\ nInputs = 0
  /\ weightsCount = 0
  /\ opModel \in OpModels
  /\ opResult = Pending

NextOp == ParseOperator

SpecOp == InitOp /\ [][NextOp]_vars

-----------------------------------------------------------------------------
(* Properties.                                                             *)

Reported(op, ok) == \E k \in DOMAIN calls : calls[k] = Call(op, 0, ok)

Stages == {"loadProto", "loadWeights", "loadNetwork", "setOutputNodes"}

Returned == pc \in {"success", "returned"}

\* The shape a descriptor states: the first `dimensions` entries of shape.
StatedShape(in) == SubSeq(in.shape, 1, in.dimensions)

\* The tensor allocated for the last loadWeight call.
WeightTensor == heap[lastDesc.obj].T

\* The tensor allocated for the last setTensorType call.
InputTensor == heap[lastDecl.obj].T

\* C1: parse returns the loader exactly when loadProto, loadWeights,
\* loadNetwork and setOutputNodes have all reported success; once any of
\* them has reported failure parse never returns the loader, and what it
\* returns is nullptr.
C1_ParseSucceedsIffAllStagesSucceed ==
  /\ (result = "loader") <=> (\A s \in Stages : Reported(s, TRUE))
  /\ (\E s \in Stages : Reported(s, FALSE)) =>
        /\ result # "loader"
        /\ pc \in {"fail", "returned"}
        /\ pc = "returned" => result = "nullptr"
  /\ result = "nullptr" => \E s \in Stages : Reported(s, FALSE)

\* A parse that registered weights and returned the loader.
C1_Witness == result = "loader" /\ wi > 0 /\ wi = weightsCount

\* C2: parseOperator returns the table's (kind, FloatTy) pair for a model
\* that deserializes and has exactly one node whose name is in the table,
\* and nullptr when the node count is not one or the name is not in the
\* table.
C2_ParseOperatorContract ==
  opResult.ptr # "pending" =>
    LET nodes == opModel.nodes
        table == [conv |-> "ConvolutionNodeKind", Relu |-> "ReluNodeKind",
                  Softmax |-> "SoftMaxNodeKind"]
    IN  /\ (opModel.valid /\ Len(nodes) = 1 /\ nodes[1] \in DOMAIN table) =>
              opResult = Pair(table[nodes[1]], "FloatTy")
        /\ (Len(nodes) # 1 \/ (Len(nodes) = 1 /\ nodes[1] \notin DOMAIN table)) =>
              opResult = Null

C4_NonCpuDescriptorFailsUnregistered ==
  (lastDesc.called /\ lastDesc.in.memoryType # "CPU") =>
    /\ lastDesc.ret = "false"
    /\ Reported("loadWeights", FALSE)
    /\ result # "loader"
    /\ pc \in {"fail", "returned"}
    /\ pc = "returned" => result = "nullptr"
    /\ \A n \in Names : tensors_[n] # lastDesc.obj

\* A load failed on a non-CPU descriptor whose name an earlier descriptor
\* had registered.
C4_Witness ==
  /\ lastDesc.called
  /\ lastDesc.in.memoryType # "CPU"
  /\ result = "nullptr"
  /\ tensors_[lastDesc.in.name] # 0

\* C5: for a CPU descriptor of data type FLOAT32, UINT64 or INT64,
\* loadWeight returns true with a tensor of the stated shape, FloatTy for
\* FLOAT32 and IndexTy for the two integer types, and does not halt.
C5_SupportedKindsLoad ==
  (/\ lastDesc.called
   /\ lastDesc.in.memoryType = "CPU"
   /\ lastDesc.in.dataType \in {"FLOAT32", "UINT64", "INT64"}) =>
    /\ lastDesc.ret = "true"
    /\ WeightTensor.dims = StatedShape(lastDesc.in)
    /\ WeightTensor.kind =
         IF lastDesc.in.dataType = "FLOAT32" THEN "FloatTy" ELSE "IndexTy"

\* The weight tensors of the load: those allocated by loadWeights.
WeightTensors(h) == {k \in DOMAIN h : h[k].site = "loadWeights"}

\* C6: tensors_ is write-once per name: an entry, once registered, is not
\* replaced by a later descriptor of the same load, and a load given two
\* descriptors of the same name does not return the loader.
C6_WeightTableWriteOnce ==
  [][/\ \A n \in Names : tensors_[n] # 0 => tensors_'[n] = tensors_[n]
     /\ result' = "loader" =>
           \A j, k \in WeightTensors(heap') :
              j # k => heap'[j].name # heap'[k].name]_vars

\* C7: when parse has returned nullptr, every Tensor and Variable allocated
\* during the call has been released.
C7_FailureReleasesEverything ==
  (pc = "returned" /\ result = "nullptr") =>
    \A k \in DOMAIN heap : ~heap[k].live

\* C8: an unsupported element kind always halts: setTensorType on a
\* declared kind other than FLOAT and INT64, and loadWeight on a descriptor
\* of any memory type whose data type is outside the supported set.
C8_UnsupportedKindAlwaysHalts ==
  /\ (lastDecl.called /\ lastDecl.in.elem \notin {"FLOAT", "INT64"}) =>
        lastDecl.ret = "halt"
  /\ (lastDesc.called
      /\ lastDesc.in.dataType \notin {"FLOAT32", "UINT64", "INT64"}) =>
        lastDesc.ret = "halt"

\* C9: for a declaration of kind FLOAT or INT64, setTensorType leaves the
\* tensor with the declared dimensions in declared order as its shape, and
\* with FloatTy for FLOAT and IndexTy for INT64.
C9_DeclaredShapeAndKind ==
  (lastDecl.called /\ lastDecl.in.elem \in {"FLOAT", "INT64"}) =>
    /\ lastDecl.ret = "ok"
    /\ InputTensor.dims = lastDecl.in.dims
    /\ InputTensor.kind =
         IF lastDecl.in.elem = "FLOAT" THEN "FloatTy" ELSE "IndexTy"

\* An INT64 input of two different dimensions has been resolved.
C9_Witness ==
  /\ lastDecl.called
  /\ lastDecl.in.elem = "INT64"
  /\ Len(lastDecl.in.dims) = 2
  /\ lastDecl.in.dims[1] # lastDecl.in.dims[2]
  /\ InputTensor.dims = lastDecl.in.dims

Rank(c) ==
  CASE c.op = "loadProto" -> 1
    [] c.op = "setVersion" -> 2
    [] c.op = "setTensorType" -> 3
    [] c.op = "loadWeight" -> 4
    [] c.op = "loadWeights" -> 5
    [] c.op = "loadNetwork" -> 6
    [] c.op = "setOutputNodes" -> 7

CountOf(op) == Cardinality({k \in DOMAIN calls : calls[k].op = op})

====
